---- MODULE Spec2Model ----
(***************************************************************************)
(* unhacs: the package model (src/unhacs/packages.py) as a state machine.  *)
(*                                                                         *)
(* Text values the code takes apart (url.split, removeprefix, removesuffix,*)
(* f"{name}.js") are sequences of tokens, so that the string operations    *)
(* are computed and not looked up.  A path is a sequence of such names,    *)
(* relative to hass_config_path.  The configuration root is a function     *)
(* from the paths of its files to their content; a directory exists when   *)
(* a file lies below it.  tmp is the set of temporary directories that     *)
(* exist, head the commit the branch of the forked repository points at.   *)
(***************************************************************************)
EXTENDS Integers, Sequences, FiniteSets, TLC

VARIABLES fs, last, lock, tmp, head

vars == <<fs, last, lock, tmp, head>>

(***************************************************************************)
(* Bounds of the model.                                                    *)
(***************************************************************************)
\* longest package list handed to write_lock_packages
MaxLock == 2

(***************************************************************************)
(* Text helpers.                                                           *)
(***************************************************************************)
startswith(s, pre) ==
    Len(s) >= Len(pre) /\ SubSeq(s, 1, Len(pre)) = pre

endswith(s, suf) ==
    Len(s) >= Len(suf) /\ SubSeq(s, Len(s) - Len(suf) + 1, Len(s)) = suf

removeprefix(s, pre) ==
    IF startswith(s, pre) THEN SubSeq(s, Len(pre) + 1, Len(s)) ELSE s

removesuffix(s, suf) ==
    IF endswith(s, suf) THEN SubSeq(s, 1, Len(s) - Len(suf)) ELSE s

UNHACS_SUFFIX == <<"-unhacs.yaml">>
UNHACS_YAML == <<"unhacs.yaml">>
CUSTOM_COMPONENTS == <<"custom_components">>
HACS_JSON == <<"hacs.json">>
JS_DIR == << <<"www">>, <<"js">> >>

(***************************************************************************)
(* PackageType (StrEnum with auto()): str(member) is the lower-cased name, *)
(* PackageType(text) finds the member by its value and raises ValueError   *)
(* for any other text.                                                     *)
(***************************************************************************)
PackageType == {"INTEGRATION", "PLUGIN"}

PackageTypeStr(member) ==
    CASE member = "INTEGRATION" -> "integration"
      [] member = "PLUGIN" -> "plugin"

PackageTypeOfValue(text) ==
    IF \E m \in PackageType : PackageTypeStr(m) = text
    THEN [ok |-> TRUE, member |-> CHOOSE m \in PackageType : PackageTypeStr(m) = text]
    ELSE [ok |-> FALSE, member |-> "INTEGRATION"]

(***************************************************************************)
(* The remote side: two repositories, their releases as the releases API   *)
(* lists them (in the API's own order), the file tree of each tag, and the *)
(* answers of the three plugin URL shapes.  The remote content is fixed.   *)
(***************************************************************************)
URL_I == << <<"github.com">>, <<"simbaja">>, <<"ha_gehome">> >>
URL_P == << <<"github.com">>, <<"kalkih">>, <<"lovelace-", "card">> >>
Urls == {URL_I, URL_P}

NoVersion == ""
Tags == {"v1", "v2", "v3"}
\* what a caller may pass as version: nothing, a released tag, a tag that no release has
VersionInputs == Tags \cup {NoVersion, "v9"}

Blob(url, tag, what) == [kind |-> "blob", url |-> url, tag |-> tag, what |-> what, json |-> <<>>, yaml |-> <<>>]
Json(url, tag, obj) == [kind |-> "json", url |-> url, tag |-> tag, what |-> "hacs.json", json |-> <<obj>>, yaml |-> <<>>]

JsonObj(filename, content_in_root) == [filename |-> filename, content_in_root |-> content_in_root]

NoText == [kind |-> "none", url |-> <<>>, tag |-> "", what |-> "", json |-> <<>>, yaml |-> <<>>]
Yaml(record) == [kind |-> "yaml", url |-> <<>>, tag |-> "", what |-> "", json |-> <<>>, yaml |-> <<record>>]

File(path, data) == [p \in {path} |-> data]

RepoTree(url, tag) ==
    CASE url = URL_I /\ tag = "v1" ->
           File(<<CUSTOM_COMPONENTS, <<"ge_home">>, <<"__init__.py">> >>, Blob(url, tag, "init"))
        @@ File(<<CUSTOM_COMPONENTS, <<"ge_home">>, <<"manifest.json">> >>, Blob(url, tag, "manifest"))
        @@ File(<<CUSTOM_COMPONENTS, <<"ge_home">>, <<"switch.py">> >>, Blob(url, tag, "switch"))
        @@ File(<< <<"README.md">> >>, Blob(url, tag, "readme"))
      [] url = URL_I /\ tag = "v2" ->
           File(<<CUSTOM_COMPONENTS, <<"ge_home">>, <<"__init__.py">> >>, Blob(url, tag, "init"))
        @@ File(<<CUSTOM_COMPONENTS, <<"ge_home">>, <<"manifest.json">> >>, Blob(url, tag, "manifest"))
        @@ File(<<CUSTOM_COMPONENTS, <<"ge_home">>, <<"sensor.py">> >>, Blob(url, tag, "sensor"))
        @@ File(<<HACS_JSON>>, Json(url, tag, JsonObj(<<>>, FALSE)))
      [] url = URL_I /\ tag = "v3" ->
           File(<< <<"__init__.py">> >>, Blob(url, tag, "init"))
        @@ File(<< <<"manifest.json">> >>, Blob(url, tag, "manifest"))
        @@ File(<<HACS_JSON>>, Json(url, tag, JsonObj(<<>>, TRUE)))
      [] url = URL_P /\ tag = "v1" ->
           File(<< <<"README.md">> >>, Blob(url, tag, "readme"))
      [] url = URL_P /\ tag = "v2" ->
           File(<< <<"README.md">> >>, Blob(url, tag, "readme"))
        @@ File(<<HACS_JSON>>, Json(url, tag, JsonObj(<<"card", ".js">>, FALSE)))
      [] url = URL_P /\ tag = "v3" ->
           File(<< <<"README.md">> >>, Blob(url, tag, "readme"))
      [] OTHER -> <<>>

Asset(name) == [name |-> name, browser_download_url |-> <<"asset">> \o name]

Release(tag, assets) == [tag_name |-> tag, assets |-> assets, zipball_url |-> <<"zipball", tag>>]

Releases(url) ==
    CASE url = URL_I -> << Release("v3", <<>>), Release("v2", <<>>), Release("v1", <<>>) >>
      [] url = URL_P -> << Release("v2", <<Asset(<<"card", ".js">>)>>),
                           Release("v3", <<Asset(<<"lovelace-", "card", "-umd", ".js">>),
                                            Asset(<<"lovelace-", "card", "-bundle", ".js">>)>>),
                           Release("v1", <<Asset(<<"lovelace-", "card", ".js">>),
                                            Asset(<<"lovelace-", "card", "-umd", ".js">>)>>) >>
      [] OTHER -> <<>>

RefExists(url, tag) == \E i \in 1..Len(Releases(url)) : Releases(url)[i].tag_name = tag

Response(status, body) == [status_code |-> status, body |-> body]

(***************************************************************************)
(* The forked repository: one branch, whose head moves along its commits.  *)
(***************************************************************************)
URL_F == << <<"github.com">>, <<"ViViDboarder">>, <<"home-assistant">> >>
FORK_BRANCH == "dev"
FORK_COMPONENT == <<"nextbus">>

\* the commits of the branch, oldest first
Commits == <<"3b2893f", "9c41d0a">>

COMPONENTS == << <<"homeassistant">>, <<"components">> >>

\* the tree of the forked repository at a commit: nextbus changes between the
\* commits, demo has no manifest.json
CommitTree(commit) ==
    CASE commit = Commits[1] ->
           File(COMPONENTS \o <<FORK_COMPONENT, <<"__init__.py">> >>, Blob(URL_F, commit, "init"))
        @@ File(COMPONENTS \o <<FORK_COMPONENT, <<"manifest.json">> >>, Blob(URL_F, commit, "manifest"))
        @@ File(COMPONENTS \o <<FORK_COMPONENT, <<"sensor.py">> >>, Blob(URL_F, commit, "sensor"))
        @@ File(COMPONENTS \o << <<"demo">>, <<"__init__.py">> >>, Blob(URL_F, commit, "init"))
        @@ File(<< <<"homeassistant">>, <<"core.py">> >>, Blob(URL_F, commit, "core"))
      [] commit = Commits[2] ->
           File(COMPONENTS \o <<FORK_COMPONENT, <<"__init__.py">> >>, Blob(URL_F, commit, "init"))
        @@ File(COMPONENTS \o <<FORK_COMPONENT, <<"manifest.json">> >>, Blob(URL_F, commit, "manifest"))
        @@ File(COMPONENTS \o <<FORK_COMPONENT, <<"coordinator.py">> >>, Blob(URL_F, commit, "coordinator"))
        @@ File(COMPONENTS \o << <<"demo">>, <<"__init__.py">> >>, Blob(URL_F, commit, "init"))
        @@ File(<< <<"homeassistant">>, <<"core.py">> >>, Blob(URL_F, commit, "core"))
      [] OTHER -> <<>>

(***************************************************************************)
(* requests.get, by the URL the code builds.  A repository is found by the *)
(* owner and name in the URL; a URL that names no repository answers 404.  *)
(***************************************************************************)
RepoKnown(owner, name) == \E u \in Urls : u[Len(u) - 1] = owner /\ u[Len(u)] = name

RepoOf(owner, name) == CHOOSE u \in Urls : u[Len(u) - 1] = owner /\ u[Len(u)] = name

\* https://api.github.com/repos/{owner}/{name}/releases
GetReleases(owner, name) ==
    IF RepoKnown(owner, name)
    THEN Response(200, Releases(RepoOf(owner, name)))
    ELSE Response(404, <<>>)

\* https://raw.githubusercontent.com/{owner}/{name}/{version}/hacs.json
GetRawHacsJson(owner, name, version) ==
    IF RepoKnown(owner, name) /\ <<HACS_JSON>> \in DOMAIN RepoTree(RepoOf(owner, name), version)
    THEN Response(200, RepoTree(RepoOf(owner, name), version)[<<HACS_JSON>>].json[1])
    ELSE Response(404, JsonObj(<<>>, FALSE))

\* the zip archive of a tree: every file below one top directory, and an
\* entry for the top directory itself
ZipOf(top, tree) ==
    {[filename |-> <<top>> \o path, is_dir |-> FALSE, data |-> tree[path]] : path \in DOMAIN tree}
    \cup {[filename |-> <<top>>, is_dir |-> TRUE, data |-> NoText]}

\* https://codeload.github.com/{owner}/{name}/zip/refs/tags/{version}
GetZipball(owner, name, version) ==
    IF RepoKnown(owner, name) /\ RefExists(RepoOf(owner, name), version)
    THEN Response(200, ZipOf(name \o <<"-", version>>, RepoTree(RepoOf(owner, name), version)))
    ELSE Response(404, {})

PluginText(shape, owner, version, filename) ==
    [kind |-> "blob", url |-> <<owner>>, tag |-> version, what |-> shape, json |-> <<>>, yaml |-> <<>>]

\* https://raw.githubusercontent.com/{owner}/{version}/dist/{filename}: the URL carries
\* no repository name, so the answer cannot depend on it
GetDist(owner, version, filename) ==
    IF owner = <<"kalkih">> /\ version = "v3" /\ filename = <<"card", ".js">>
    THEN Response(500, NoText)
    ELSE Response(404, NoText)

\* https://github.com/{owner}/{name}/releases/download/{version}/{filename}
GetReleaseAsset(owner, name, version, filename) ==
    IF /\ RepoKnown(owner, name)
       /\ \E i \in 1..Len(Releases(RepoOf(owner, name))) :
             /\ Releases(RepoOf(owner, name))[i].tag_name = version
             /\ \E j \in 1..Len(Releases(RepoOf(owner, name))[i].assets) :
                   Releases(RepoOf(owner, name))[i].assets[j].name = filename
    THEN Response(200, PluginText("release", owner, version, filename))
    ELSE Response(404, NoText)

\* https://raw.githubusercontent.com/{owner}/{version}/{filename}
GetRoot(owner, version, filename) ==
    IF owner = <<"simbaja">> /\ version = "v1" /\ filename = <<"ha_gehome", ".js">>
    THEN Response(200, PluginText("root", owner, version, filename))
    ELSE Response(404, NoText)

\* response.raise_for_status(): HTTPError for every 4xx and 5xx status
RaisesForStatus(response) == response.status_code >= 400

\* unhacs.git.get_latest_sha: the commit the branch points at when it is asked
get_latest_sha(url, branch_name, at) ==
    IF url = URL_F /\ branch_name = FORK_BRANCH THEN at ELSE NoVersion

\* requests.get(unhacs.git.get_branch_zip(url, branch_name)): the archive of
\* the branch as it stands when it is downloaded
GetBranchZip(url, branch_name, at) ==
    IF url = URL_F /\ branch_name = FORK_BRANCH
    THEN Response(200, ZipOf(url[Len(url)] \o <<"-", branch_name>>, CommitTree(at)))
    ELSE Response(404, {})

(***************************************************************************)
(* Package                                                                 *)
(***************************************************************************)
NoPath == <<>>

\* the attributes of a Package that install, uninstall and the index read
\* (download_url, set by a resolution only, is part of the result of Package)
PackageRecord(url, version, package_type) ==
    [url |-> url,
     owner |-> url[Len(url) - 1],
     name |-> url[Len(url)],
     version |-> version,
     package_type |-> package_type,
     path |-> NoPath]

\* Package.get_hacs_json: 404 is the empty object, any other failure raises
HacsJsonFrom(response) ==
    IF response.status_code = 404 THEN [ok |-> TRUE, err |-> "", json |-> JsonObj(<<>>, FALSE)]
    ELSE IF RaisesForStatus(response) THEN [ok |-> FALSE, err |-> "HTTPError", json |-> JsonObj(<<>>, FALSE)]
    ELSE [ok |-> TRUE, err |-> "", json |-> response.body]

get_hacs_json(owner, name, version) == HacsJsonFrom(GetRawHacsJson(owner, name, version))

\* index of the first element of seq that lies in the set wanted, 0 when there
\* is none (the position at which a for loop breaks, its else branch otherwise)
FirstIndex(seq, wanted) ==
    IF \E i \in 1..Len(seq) : seq[i] \in wanted
    THEN CHOOSE i \in 1..Len(seq) : seq[i] \in wanted /\ \A j \in 1..(i - 1) : seq[j] \notin wanted
    ELSE 0

FetchFailed(err) == [ok |-> FALSE, err |-> err, version |-> NoVersion, download_url |-> <<>>]

FetchOk(version, download_url) ==
    [ok |-> TRUE, err |-> "", version |-> version, download_url |-> download_url]

\* the elements of seq whose field (tag_name, name) has the value given
Having(seq, field, value) == {seq[i] : i \in {j \in 1..Len(seq) : seq[j][field] = value}}

\* fetch_version_release, from the descriptor on: the asset the descriptor
\* names, or the zipball when it names none
DownloadUrl(desired_release, hacs) ==
    IF ~hacs.ok THEN FetchFailed(hacs.err)
    ELSE IF hacs.json.filename = <<>>
         THEN FetchOk(desired_release.tag_name, desired_release.zipball_url)
    ELSE IF Having(desired_release.assets, "name", hacs.json.filename) = {}
         THEN FetchFailed("ValueError: No filename found in hacs.json")
    ELSE FetchOk(desired_release.tag_name,
                 desired_release.assets[
                     FirstIndex(desired_release.assets,
                                Having(desired_release.assets, "name", hacs.json.filename))
                 ].browser_download_url)

\* fetch_version_release, from the release it settled on
FromRelease(owner, name, desired_release) ==
    DownloadUrl(desired_release, get_hacs_json(owner, name, desired_release.tag_name))

\* a resolution that compares the tags and takes the greatest
FromReleases_HighestTag(owner, name, version, response) ==
    LET Rank(tag) == CASE tag = "v1" -> 1 [] tag = "v2" -> 2 [] tag = "v3" -> 3 [] OTHER -> 0
        highest == CHOOSE i \in 1..Len(response.body) :
                       \A j \in 1..Len(response.body) :
                           Rank(response.body[j].tag_name) <= Rank(response.body[i].tag_name)
    IN  IF RaisesForStatus(response) THEN FetchFailed("HTTPError")
        ELSE IF response.body = <<>> THEN FetchFailed("ValueError: No releases found")
        ELSE FromRelease(owner, name, response.body[highest])

\* fetch_version_release, from the answer of the releases API on
FromReleases(owner, name, version, response) ==
    IF RaisesForStatus(response) THEN FetchFailed("HTTPError")
    ELSE IF response.body = <<>> THEN FetchFailed("ValueError: No releases found")
    ELSE IF version = NoVersion THEN FromRelease(owner, name, response.body[1])
    ELSE IF Having(response.body, "tag_name", version) = {}
         THEN FetchFailed("ValueError: Version does not exist")
    ELSE FromRelease(owner, name,
                     response.body[FirstIndex(response.body, Having(response.body, "tag_name", version))])

\* Package.fetch_version_release
fetch_version_release(owner, name, version) ==
    FromReleases(owner, name, version, GetReleases(owner, name))

NoPackage == PackageRecord(<< <<>>, <<>> >>, NoVersion, "INTEGRATION")

\* Package.__init__: the result, the package built, and whether the releases were fetched
PackageFrom(url, package_type, fetched) ==
    IF fetched.ok
    THEN [ok |-> TRUE, err |-> "", fetched |-> TRUE, download_url |-> fetched.download_url,
          pkg |-> PackageRecord(url, fetched.version, package_type)]
    ELSE [ok |-> FALSE, err |-> fetched.err, fetched |-> TRUE, download_url |-> <<>>,
          pkg |-> NoPackage]

Package(url, version, package_type) ==
    IF version = NoVersion
    THEN PackageFrom(url, package_type,
                     fetch_version_release(url[Len(url) - 1], url[Len(url)], version))
    ELSE [ok |-> TRUE, err |-> "", fetched |-> FALSE, download_url |-> <<>>,
          pkg |-> PackageRecord(url, version, package_type)]

\* an equality that also looks at the type
PackageEq_WithType(a, b) ==
    a.url = b.url /\ a.version = b.version /\ a.package_type = b.package_type

\* Package.__eq__
PackageEq(a, b) == a.url = b.url /\ a.version = b.version

\* Package.to_yaml
to_yaml(self) ==
    [url |-> self.url, version |-> self.version, package_type |-> PackageTypeStr(self.package_type)]

\* a from_yaml that drops package_type and leaves the default
from_yaml_DefaultType(yaml) == Package(yaml.url, yaml.version, "INTEGRATION")

\* Package.from_yaml: package_type is popped (KeyError when the record has no
\* such key) and, when it is a non-empty text, converted by PackageType(...);
\* the rest goes to Package(**yaml)
from_yaml(yaml) ==
    IF "package_type" \notin DOMAIN yaml
    THEN [ok |-> FALSE, err |-> "KeyError: package_type",
          fetched |-> FALSE, download_url |-> <<>>, pkg |-> NoPackage]
    ELSE IF yaml.package_type # "" /\ ~PackageTypeOfValue(yaml.package_type).ok
    THEN [ok |-> FALSE, err |-> "ValueError: not a valid PackageType",
          fetched |-> FALSE, download_url |-> <<>>, pkg |-> NoPackage]
    ELSE Package(yaml.url, yaml.version,
                 IF yaml.package_type # "" THEN PackageTypeOfValue(yaml.package_type).member
                 ELSE "INTEGRATION")

(***************************************************************************)
(* The file system below hass_config_path (and below a temporary           *)
(* directory): a function from file paths to content.                      *)
(***************************************************************************)
IsUnder(path, dir) == Len(path) > Len(dir) /\ SubSeq(path, 1, Len(dir)) = dir

is_dir(tree, path) == \E f \in DOMAIN tree : IsUnder(f, path)

Restrict(tree, keep) == [f \in keep |-> tree[f]]

\* an rmtree that removes nothing
rmtree_Skipped(tree, path) == tree

\* shutil.rmtree(path): every file below path goes, and the directory with them
rmtree(tree, path) == Restrict(tree, {f \in DOMAIN tree : ~IsUnder(f, path)})

\* Path.unlink()
unlink(tree, path) == Restrict(tree, DOMAIN tree \ {path})

\* dir.glob("*"): the names directly below dir
glob(tree, dir) == {f[Len(dir) + 1] : f \in {g \in DOMAIN tree : IsUnder(g, dir)}}

\* the first name a glob yields; the order is the directory's own
GlobFirst(names) == CHOOSE n \in names : TRUE

\* open(path, "w").write(data)
write(tree, path, data) == File(path, data) @@ tree

\* the files of `from` below source, re-rooted at dest
Moved(from, source, dest) ==
    LET below == {f \in DOMAIN from : IsUnder(f, source)}
        Target(f) == dest \o SubSeq(f, Len(source) + 1, Len(f))
    IN  [t \in {Target(f) : f \in below} |->
            from[CHOOSE f \in below : Target(f) = t]]

\* extract_zip: directory entries are skipped, the top directory is stripped
extract_zip(zip_file) ==
    LET infos == {info \in zip_file : ~info.is_dir}
    IN  [path \in {Tail(info.filename) : info \in infos} |->
            (CHOOSE info \in infos : Tail(info.filename) = path).data]

(***************************************************************************)
(* tempfile.TemporaryDirectory(prefix="unhacs-"): the directory is made on *)
(* entry of the with block and removed when the block is left, by its end  *)
(* or by an exception; a directory that is gone by then (moved away) is no *)
(* error of the cleanup.                                                   *)
(***************************************************************************)
TempNames == {<<"unhacs-", "a">>, <<"unhacs-", "b">>}

\* mkdtemp: a name no existing directory has
mkdtemp(dirs) == CHOOSE name \in TempNames : name \notin dirs

TemporaryDirectory_enter(dirs) == dirs \cup {mkdtemp(dirs)}

\* a cleanup that leaves the directory behind
TemporaryDirectory_exit_Kept(dirs, name) == dirs

TemporaryDirectory_exit(dirs, name) == dirs \ {name}

\* the temporary directories after a with block that was entered
WithTemporaryDirectory(dirs) ==
    TemporaryDirectory_exit(TemporaryDirectory_enter(dirs), mkdtemp(dirs))

(***************************************************************************)
(* install                                                                 *)
(***************************************************************************)
\* the packages a caller can hold: built from user input
Constructed ==
    {made.pkg : made \in {m \in {Package(c[1], c[2], c[3]) :
                                     c \in Urls \X VersionInputs \X PackageType} : m.ok}}

Outcome(ok, err, tree, placed, requests) ==
    [ok |-> ok, err |-> err, fs |-> tree, placed |-> placed, requests |-> requests]

\* the temporary directory of install_integration after extract_zip
Extracted(self) == extract_zip(GetZipball(self.owner, self.name, self.version).body)

\* the end of install_integration without its shutil.rmtree(dest): shutil.move
\* puts the source inside a destination directory that exists
PlaceIntegration_NoRmtree(self, tree, tmpdir, source, dest) ==
    Outcome(TRUE, "",
            write(Moved(tmpdir, source,
                        IF is_dir(tree, dest) THEN dest \o <<dest[Len(dest)]>> ELSE dest) @@ tree,
                  dest \o <<UNHACS_YAML>>, Yaml(to_yaml(self))),
            dest, <<>>)

\* the end of install_integration: dest is removed, source is moved to it,
\* the manifest is written into it
PlaceIntegration(self, tree, tmpdir, source, dest) ==
    Outcome(TRUE, "",
            write(Moved(tmpdir, source, dest) @@ rmtree(tree, dest),
                  dest \o <<UNHACS_YAML>>, Yaml(to_yaml(self))),
            dest, <<>>)

\* install_integration from the extracted archive on: the first directory
\* below custom_components, or the archive root when hacs.json says so
FromComponents(self, tree, tmpdir, components) ==
    IF components # {}
    THEN PlaceIntegration(self, tree, tmpdir,
                          <<CUSTOM_COMPONENTS, GlobFirst(components)>>,
                          <<CUSTOM_COMPONENTS, GlobFirst(components)>>)
    ELSE IF <<HACS_JSON>> \notin DOMAIN tmpdir
         THEN Outcome(FALSE, "FileNotFoundError", tree, <<>>, <<>>)
    ELSE IF ~tmpdir[<<HACS_JSON>>].json[1].content_in_root
         THEN Outcome(FALSE, "ValueError: No custom_components directory found", tree, <<>>, <<>>)
    ELSE PlaceIntegration(self, tree, tmpdir, <<>>, <<CUSTOM_COMPONENTS, self.name>>)

\* an install that clears custom_components/<name> before it looks at the
\* answer to the zipball request
FromZipball_ClearsFirst(self, tree, response, tmpdir) ==
    IF RaisesForStatus(response)
    THEN Outcome(FALSE, "HTTPError", rmtree(tree, <<CUSTOM_COMPONENTS, self.name>>), <<>>, <<>>)
    ELSE FromComponents(self, tree, tmpdir, glob(tmpdir, <<CUSTOM_COMPONENTS>>))

\* install_integration from the answer to the zipball request on
FromZipball(self, tree, response, tmpdir) ==
    IF RaisesForStatus(response) THEN Outcome(FALSE, "HTTPError", tree, <<>>, <<>>)
    ELSE FromComponents(self, tree, tmpdir, glob(tmpdir, <<CUSTOM_COMPONENTS>>))

\* Package.install_integration
install_integration(self, tree) ==
    FromZipball(self, tree, GetZipball(self.owner, self.name, self.version), Extracted(self))

\* a loop without its break: it ends on the last candidate that can be fetched
PluginLoop_LastFetched(self, filenames) ==
    LET Fetched(n) ==
            LET dist == GetDist(self.owner, self.version, filenames[n])
                release == GetReleaseAsset(self.owner, self.name, self.version, filenames[n])
                root == GetRoot(self.owner, self.version, filenames[n])
            IN  IF dist.status_code # 404 THEN dist.status_code < 400
                ELSE IF release.status_code # 404 THEN release.status_code < 400
                ELSE root.status_code < 400
    IN  IF \E n \in 1..Len(filenames) : Fetched(n)
        THEN CHOOSE n \in 1..Len(filenames) :
                Fetched(n) /\ \A m \in (n + 1)..Len(filenames) : ~Fetched(m)
        ELSE 0

Got(shape, response) == [shape |-> shape, status_code |-> response.status_code]

\* real_get, from the answers of the three URL shapes
RealGetFrom(dist, release, root) ==
    IF dist.status_code # 404
    THEN [plugin |-> dist, got |-> <<Got("dist", dist)>>]
    ELSE IF release.status_code # 404
         THEN [plugin |-> release, got |-> <<Got("dist", dist), Got("release", release)>>]
    ELSE [plugin |-> root,
          got |-> <<Got("dist", dist), Got("release", release), Got("root", root)>>]

\* install_plugin.real_get: the response raise_for_status() is called on, and
\* the URL shapes requested to get it, each with the status it answered
real_get(self, filename) ==
    RealGetFrom(GetDist(self.owner, self.version, filename),
                GetReleaseAsset(self.owner, self.name, self.version, filename),
                GetRoot(self.owner, self.version, filename))

\* the candidate file names of install_plugin
valid_filenames(self, hacs_json) ==
    IF hacs_json.filename # <<>>
    THEN <<hacs_json.filename>>
    ELSE << removeprefix(self.name, <<"lovelace-">>) \o <<".js">>,
            self.name \o <<".js">>,
            self.name \o <<"-umd", ".js">>,
            self.name \o <<"-bundle", ".js">> >>

\* the requests real_get issued for one candidate
Logged(filename, got) ==
    [i \in 1..Len(got) |->
        [filename |-> filename, shape |-> got[i].shape, status_code |-> got[i].status_code]]

RECURSIVE RequestsOf(_, _, _)
\* the requests issued for the first n candidates, in order
RequestsOf(self, filenames, n) ==
    IF n = 0 THEN <<>>
    ELSE RequestsOf(self, filenames, n - 1) \o Logged(filenames[n], real_get(self, filenames[n]).got)

\* the loop over the candidates: the index of the candidate it breaks at, 0
\* when it runs to its else branch
PluginLoop(self, filenames) ==
    LET fetched == {filenames[i] : i \in {j \in 1..Len(filenames) :
                                            ~RaisesForStatus(real_get(self, filenames[j]).plugin)}}
    IN  FirstIndex(filenames, fetched)

\* what the loop of install_plugin leaves: where it stopped, the requests it
\* issued and the response it holds
LoopResult(self, hacs, filenames, found) ==
    [hacs |-> hacs,
     filenames |-> filenames,
     found |-> found,
     requests |-> IF hacs.ok
                  THEN RequestsOf(self, filenames, IF found = 0 THEN Len(filenames) ELSE found)
                  ELSE <<>>,
     filename |-> IF found = 0 THEN <<>> ELSE filenames[found],
     plugin |-> IF found = 0 THEN Response(404, NoText) ELSE real_get(self, filenames[found]).plugin]

WithFilenames(self, hacs, filenames) ==
    LoopResult(self, hacs, filenames, PluginLoop(self, filenames))

WithHacsJson(self, hacs) == WithFilenames(self, hacs, valid_filenames(self, hacs.json))

\* install_plugin up to the end of its loop: the descriptor, the candidates,
\* where the loop stopped, the requests it issued and the response it holds
Resolved(self) == WithHacsJson(self, get_hacs_json(self.owner, self.name, self.version))

\* install_plugin from the end of its loop on: the file and its manifest
PluginFrom(self, tree, resolved) ==
    IF ~resolved.hacs.ok THEN Outcome(FALSE, resolved.hacs.err, tree, <<>>, <<>>)
    ELSE IF resolved.found = 0
         THEN Outcome(FALSE, "ValueError: No valid filename found", tree, <<>>, resolved.requests)
    ELSE Outcome(TRUE, "",
                 write(write(tree, JS_DIR \o <<resolved.filename>>, resolved.plugin.body),
                       JS_DIR \o <<resolved.filename \o UNHACS_SUFFIX>>, Yaml(to_yaml(self))),
                 JS_DIR \o <<resolved.filename>>, resolved.requests)

\* Package.install_plugin
install_plugin(self, tree) == PluginFrom(self, tree, Resolved(self))

\* the install reaches the with block of install_integration
EntersTemp(self) ==
    /\ self.package_type = "INTEGRATION"
    /\ ~RaisesForStatus(GetZipball(self.owner, self.name, self.version))

\* Package.install
install(self, tree) ==
    IF self.package_type = "PLUGIN" THEN install_plugin(self, tree)
    ELSE IF self.package_type = "INTEGRATION" THEN install_integration(self, tree)
    ELSE Outcome(FALSE, "NotImplementedError", tree, <<>>, <<>>)

(***************************************************************************)
(* Fork (src/unhacs/packages/fork.py).  Its base class, unhacs.git and the *)
(* manifest writer are not part of the sources at hand; they follow the    *)
(* design document.                                                        *)
(***************************************************************************)
ForkRecord(url, fork_component, branch_name, version) ==
    [url |-> url,
     owner |-> url[Len(url) - 1],
     name |-> url[Len(url)],
     version |-> version,
     package_type |-> "FORK",
     path |-> NoPath,
     fork_component |-> fork_component,
     branch_name |-> branch_name]

\* a resolution that answers with a release tag
Fork_fetch_version_release_Tag(url, branch_name, at) == Releases(URL_I)[1].tag_name

\* Fork.fetch_version_release
Fork_fetch_version_release(url, branch_name, at) == get_latest_sha(url, branch_name, at)

\* Fork.__init__: the two fork fields, then the constructor of the base class,
\* which resolves the version when none is given
Fork(url, fork_component, branch_name, version, at) ==
    IF version = NoVersion
    THEN [fetched |-> TRUE,
          pkg |-> ForkRecord(url, fork_component, branch_name,
                             Fork_fetch_version_release(url, branch_name, at))]
    ELSE [fetched |-> FALSE, pkg |-> ForkRecord(url, fork_component, branch_name, version)]

\* Integration.to_yaml(path) of a Fork: the record the manifest holds
Fork_to_yaml(self) ==
    [url |-> self.url, version |-> self.version, package_type |-> "fork",
     fork_component |-> self.fork_component, branch_name |-> self.branch_name]

\* the steps of an install that touch a file system and can fail; "none" is
\* the install in which none does
FaultSteps == {"extract", "move", "manifest"}

\* manifest["version"] = "0.0.0", written back to manifest.json
WithManifestVersion(tmpdir, manifest_file) ==
    [tmpdir EXCEPT ![manifest_file] = [@ EXCEPT !.json = <<[version |-> "0.0.0"]>>]]

\* Fork.install from the version line on: dest is removed, source is moved to
\* it, the manifest is written into it; the step named fails
ForkPlace(self, tree, tmpdir, source, dest, step) ==
    IF step = "move" THEN Outcome(FALSE, "OSError", rmtree(tree, dest), <<>>, <<>>)
    ELSE IF step = "manifest"
         THEN Outcome(FALSE, "OSError", Moved(tmpdir, source, dest) @@ rmtree(tree, dest), dest, <<>>)
    ELSE Outcome(TRUE, "",
                 write(Moved(tmpdir, source, dest) @@ rmtree(tree, dest),
                       dest \o <<UNHACS_YAML>>, Yaml(Fork_to_yaml(self))),
                 dest, <<>>)

\* Fork.install from the answer to the archive request on
ForkFromZip(self, tree, response, tmpdir, source, step) ==
    IF RaisesForStatus(response) THEN Outcome(FALSE, "HTTPError", tree, <<>>, <<>>)
    ELSE IF step = "extract" THEN Outcome(FALSE, "OSError", tree, <<>>, <<>>)
    ELSE IF ~is_dir(tmpdir, source)
         THEN Outcome(FALSE, "ValueError: Could not find component", tree, <<>>, <<>>)
    ELSE IF (source \o << <<"manifest.json">> >>) \notin DOMAIN tmpdir
         THEN Outcome(FALSE, "FileNotFoundError", tree, <<>>, <<>>)
    ELSE ForkPlace(self, tree, WithManifestVersion(tmpdir, source \o << <<"manifest.json">> >>),
                   source, <<CUSTOM_COMPONENTS, source[Len(source)]>>, step)

\* Fork.install: the archive of the branch as it stands at the commit `at`
Fork_install(self, tree, at, step) ==
    ForkFromZip(self, tree, GetBranchZip(self.url, self.branch_name, at),
                extract_zip(GetBranchZip(self.url, self.branch_name, at).body),
                COMPONENTS \o <<self.fork_component>>, step)

(***************************************************************************)
(* install_integration with a file system step that fails                  *)
(***************************************************************************)
\* the end of install_integration when the move, or the manifest write, fails
PlaceFailing(self, tree, tmpdir, source, dest, step) ==
    IF step = "move" THEN Outcome(FALSE, "OSError", rmtree(tree, dest), <<>>, <<>>)
    ELSE Outcome(FALSE, "OSError", Moved(tmpdir, source, dest) @@ rmtree(tree, dest), dest, <<>>)

FromComponentsFailing(self, tree, tmpdir, components, step) ==
    IF components # {}
    THEN PlaceFailing(self, tree, tmpdir,
                      <<CUSTOM_COMPONENTS, GlobFirst(components)>>,
                      <<CUSTOM_COMPONENTS, GlobFirst(components)>>, step)
    ELSE IF <<HACS_JSON>> \notin DOMAIN tmpdir
         THEN Outcome(FALSE, "FileNotFoundError", tree, <<>>, <<>>)
    ELSE IF ~tmpdir[<<HACS_JSON>>].json[1].content_in_root
         THEN Outcome(FALSE, "ValueError: No custom_components directory found", tree, <<>>, <<>>)
    ELSE PlaceFailing(self, tree, tmpdir, <<>>, <<CUSTOM_COMPONENTS, self.name>>, step)

FromZipballFailing(self, tree, response, tmpdir, step) ==
    IF RaisesForStatus(response) THEN Outcome(FALSE, "HTTPError", tree, <<>>, <<>>)
    ELSE IF step = "extract" THEN Outcome(FALSE, "OSError", tree, <<>>, <<>>)
    ELSE FromComponentsFailing(self, tree, tmpdir, glob(tmpdir, <<CUSTOM_COMPONENTS>>), step)

\* Package.install_integration in which the step named fails
install_integration_failing(self, tree, step) ==
    FromZipballFailing(self, tree, GetZipball(self.owner, self.name, self.version),
                       Extracted(self), step)

\* the two writes of install_plugin that can fail: the artifact (write_text)
\* and the manifest (yaml.dump into the opened file)
PluginSteps == {"artifact", "manifest"}

\* install_plugin from the end of its loop on, the write named failing
PluginFailing(self, tree, resolved, step) ==
    IF ~resolved.hacs.ok THEN Outcome(FALSE, resolved.hacs.err, tree, <<>>, <<>>)
    ELSE IF resolved.found = 0
         THEN Outcome(FALSE, "ValueError: No valid filename found", tree, <<>>, resolved.requests)
    ELSE IF step = "artifact" THEN Outcome(FALSE, "OSError", tree, <<>>, resolved.requests)
    ELSE Outcome(FALSE, "OSError",
                 write(tree, JS_DIR \o <<resolved.filename>>, resolved.plugin.body),
                 JS_DIR \o <<resolved.filename>>, resolved.requests)

\* Package.install_plugin in which the write named fails
install_plugin_failing(self, tree, step) == PluginFailing(self, tree, Resolved(self), step)

(***************************************************************************)
(* The installed-package index, uninstall, is_update                       *)
(***************************************************************************)
\* a scan that forgets the plugin folder
ManifestsFound_IntegrationsOnly(tree) ==
    {[path |-> <<CUSTOM_COMPONENTS, c>>, unhacs |-> <<CUSTOM_COMPONENTS, c, UNHACS_YAML>>, plugin |-> FALSE] :
        c \in {d \in glob(tree, <<CUSTOM_COMPONENTS>>) : <<CUSTOM_COMPONENTS, d, UNHACS_YAML>> \in DOMAIN tree}}

\* the manifests a scan finds, each with the path of the artifact it accompanies
ManifestsFound(tree) ==
    {[path |-> <<CUSTOM_COMPONENTS, c>>, unhacs |-> <<CUSTOM_COMPONENTS, c, UNHACS_YAML>>, plugin |-> FALSE] :
        c \in {d \in glob(tree, <<CUSTOM_COMPONENTS>>) : <<CUSTOM_COMPONENTS, d, UNHACS_YAML>> \in DOMAIN tree}}
    \cup
    {[path |-> JS_DIR \o <<removesuffix(n, UNHACS_SUFFIX)>>, unhacs |-> JS_DIR \o <<n>>, plugin |-> TRUE] :
        n \in {m \in glob(tree, JS_DIR) : endswith(m, UNHACS_SUFFIX)}}

\* Package.from_yaml(yaml.safe_load(unhacs.open())) with path set
Discovered(tree, found) ==
    [from_yaml(tree[found.unhacs].yaml[1]).pkg EXCEPT !.path = found.path]

\* get_installed_packages: the packages of the list it returns
get_installed_packages(tree) == {Discovered(tree, found) : found \in ManifestsFound(tree)}

\* the index scan over the manifests of forks: each is read back into a Fork
\* with path set to the directory it lies in
get_installed_forks(tree) ==
    {[ForkRecord(tree[found.unhacs].yaml[1].url, tree[found.unhacs].yaml[1].fork_component,
                 tree[found.unhacs].yaml[1].branch_name, tree[found.unhacs].yaml[1].version)
         EXCEPT !.path = found.path] :
        found \in {f \in ManifestsFound(tree) : tree[f.unhacs].yaml[1].package_type = "fork"}}

\* Package.installed_package: the packages it can return, by the order the
\* directory yields its entries; the integrations are searched first.  The
\* empty set stands for None.
installed_package(self, tree) ==
    LET installed == get_installed_packages(tree)
        Matches(folder) ==
            {q \in installed : q.path[1] = folder /\ q.name = self.name /\ q.url = self.url}
    IN  IF Matches(CUSTOM_COMPONENTS) # {} THEN Matches(CUSTOM_COMPONENTS) ELSE Matches(JS_DIR[1])

Removal(ok, err, ret, tree) == [ok |-> ok, err |-> err, ret |-> ret, fs |-> tree]

\* Package.uninstall of a package that carries a path
uninstall_path(path, tree) ==
    LET manifest == SubSeq(path, 1, Len(path) - 1) \o <<path[Len(path)] \o UNHACS_SUFFIX>>
    IN  IF is_dir(tree, path) THEN Removal(TRUE, "", TRUE, rmtree(tree, path))
        ELSE IF path \notin DOMAIN tree THEN Removal(FALSE, "FileNotFoundError", FALSE, tree)
        ELSE IF manifest \notin DOMAIN tree
             THEN Removal(FALSE, "FileNotFoundError", FALSE, unlink(tree, path))
        ELSE Removal(TRUE, "", TRUE, unlink(unlink(tree, path), manifest))

\* Package.uninstall of a package that carries a path, the removal named
\* failing: rmtree of a directory, the unlink of the artifact, or the unlink
\* of the manifest after the artifact is gone
uninstall_path_failing(path, tree, step) ==
    IF is_dir(tree, path) THEN Removal(FALSE, "OSError", FALSE, tree)
    ELSE IF path \notin DOMAIN tree THEN Removal(FALSE, "FileNotFoundError", FALSE, tree)
    ELSE IF step = "artifact" THEN Removal(FALSE, "OSError", FALSE, tree)
    ELSE Removal(FALSE, "OSError", FALSE, unlink(tree, path))

\* an uninstall that answers True also when it found nothing to remove
uninstall_AlwaysTrue(self, tree) ==
    IF self.path # NoPath THEN {uninstall_path(self.path, tree)}
    ELSE LET found == installed_package(self, tree)
         IN  IF found # {}
             THEN {uninstall_path(q.path, tree) : q \in found}
             ELSE {Removal(TRUE, "", TRUE, tree)}

\* Package.uninstall: the outcomes it can have
uninstall(self, tree) ==
    IF self.path # NoPath THEN {uninstall_path(self.path, tree)}
    ELSE LET found == installed_package(self, tree)
         IN  IF found # {}
             THEN {uninstall_path(q.path, tree) : q \in found}
             ELSE {Removal(TRUE, "", FALSE, tree)}

\* Package.is_update: the values it can return
is_update(self, tree) ==
    LET found == installed_package(self, tree)
    IN  IF found = {} THEN {TRUE} ELSE {q.version # self.version : q \in found}

(***************************************************************************)
(* The add command of the caller (unhacs.main): it builds the package,     *)
(* refuses it when a package of the url is installed and no update was     *)
(* asked for, and installs it otherwise.  The exit status is 0 or 1.       *)
(***************************************************************************)
AddResult(status, err, tree, pkg, placed, requests, installing) ==
    [status |-> status, err |-> err, fs |-> tree, pkg |-> pkg, placed |-> placed,
     requests |-> requests, installing |-> installing]

\* add, from the end of package.install on
AddInstalled(pkg, done) ==
    AddResult(IF done.ok THEN 0 ELSE 1, done.err, done.fs, pkg, done.placed, done.requests, TRUE)

\* an add that installs whatever is installed already
AddMade_NoCheck(made, url, update, tree) ==
    IF ~made.ok THEN AddResult(1, made.err, tree, NoPackage, <<>>, <<>>, FALSE)
    ELSE AddInstalled(made.pkg, install(made.pkg, tree))

\* add, from the package built on
AddMade(made, url, update, tree) ==
    IF ~made.ok THEN AddResult(1, made.err, tree, NoPackage, <<>>, <<>>, FALSE)
    ELSE IF ~update /\ \E q \in get_installed_packages(tree) : q.url = url
         THEN AddResult(1, "already installed", tree, made.pkg, <<>>, <<>>, FALSE)
    ELSE AddInstalled(made.pkg, install(made.pkg, tree))

add(url, version, package_type, update, tree) ==
    AddMade(Package(url, version, package_type), url, update, tree)

(***************************************************************************)
(* The lock file                                                           *)
(***************************************************************************)
\* write_lock_packages: the list under "packages", in the order of the argument
write_lock_packages(packages) == [i \in 1..Len(packages) |-> to_yaml(packages[i])]

\* read_lock_packages: the list it returns, or the error of the first entry
\* that from_yaml refuses
read_lock_packages(file) ==
    IF file = <<>> THEN [err |-> "", packages |-> <<>>]
    ELSE IF \E i \in 1..Len(file[1]) : ~from_yaml(file[1][i]).ok
         THEN [err |-> from_yaml(file[1][CHOOSE i \in 1..Len(file[1]) :
                                            /\ ~from_yaml(file[1][i]).ok
                                            /\ \A j \in 1..(i - 1) : from_yaml(file[1][j]).ok]).err,
               packages |-> <<>>]
    ELSE [err |-> "", packages |-> [i \in 1..Len(file[1]) |-> from_yaml(file[1][i]).pkg]]

(***************************************************************************)
(* The state machine.  fs is the configuration root, last the operation    *)
(* that ran last with its result and the configuration root it started     *)
(* from, lock the lock file with the list written and the list read back.  *)
(***************************************************************************)
Last(op, pkg, ok, err, ret, placed, requests, pre) ==
    [op |-> op, pkg |-> pkg, ok |-> ok, err |-> err, ret |-> ret,
     placed |-> placed, requests |-> requests, pre |-> pre]

NoLock == [packages |-> <<>>, file |-> <<>>, read |-> <<>>, err |-> ""]

Init ==
    /\ fs = <<>>
    /\ last = Last("init", NoPackage, TRUE, "", FALSE, <<>>, <<>>, <<>>)
    /\ lock = NoLock
    /\ tmp = {}
    /\ head = Commits[1]

\* Package(url, version, package_type), from what the user gave
Construct(url, version, package_type) ==
    LET made == Package(url, version, package_type)
    IN  /\ last' = Last("construct", IF made.ok THEN made.pkg
                                     ELSE PackageRecord(url, version, package_type),
                        made.ok, made.err, made.fetched, <<>>, <<>>, fs)
        /\ UNCHANGED <<fs, lock, tmp, head>>

\* package.install(hass_config_path)
Install(self) ==
    \E done \in {install(self, fs)} :
        /\ fs' = done.fs
        /\ last' = Last("install", self, done.ok, done.err, FALSE, done.placed, done.requests, fs)
        /\ tmp' = IF EntersTemp(self) THEN WithTemporaryDirectory(tmp) ELSE tmp
        /\ UNCHANGED <<lock, head>>

\* package.uninstall(hass_config_path), the package built from user input
Uninstall(self) ==
    \E done \in uninstall(self, fs) :
        /\ fs' = done.fs
        /\ last' = Last("uninstall", self, done.ok, done.err, done.ret, <<>>, <<>>, fs)
        /\ UNCHANGED <<lock, tmp, head>>

\* package.uninstall(hass_config_path), the package one of get_installed_packages
UninstallDiscovered(self) ==
    \E done \in uninstall(self, fs) :
        /\ fs' = done.fs
        /\ last' = Last("uninstall", self, done.ok, done.err, done.ret, <<>>, <<>>, fs)
        /\ UNCHANGED <<lock, tmp, head>>

\* package.is_update(hass_config_path)
IsUpdate(self) ==
    \E ret \in is_update(self, fs) :
        /\ last' = Last("is_update", self, TRUE, "", ret, <<>>, <<>>, fs)
        /\ UNCHANGED <<fs, lock, tmp, head>>

\* what add is called with: a version given or left out, with --update or not
AddVersions == {NoVersion, "v1"}

\* main(["add", url, "--version", version, "--update"])
Add(url, version, package_type, update) ==
    \E done \in {add(url, version, package_type, update, fs)} :
        /\ fs' = done.fs
        /\ last' = Last(IF update THEN "add --update" ELSE "add", done.pkg, TRUE, done.err,
                        done.status, done.placed, done.requests, fs)
        /\ tmp' = IF done.installing /\ EntersTemp(done.pkg) THEN WithTemporaryDirectory(tmp) ELSE tmp
        /\ UNCHANGED <<lock, head>>

Next ==
    \/ \E self \in Constructed : Install(self)
    \/ \E self \in Constructed : Uninstall(self)
    \/ \E url \in Urls, version \in VersionInputs, package_type \in PackageType :
          Construct(url, version, package_type)
    \/ \E self \in get_installed_packages(fs) : UninstallDiscovered(self)
    \/ \E self \in Constructed : IsUpdate(self)

Spec == Init /\ [][Next]_vars

\* the forks a caller can hold: the version given, or resolved at some commit
ForkComponents == {FORK_COMPONENT, <<"demo">>, <<"zwave">>}

Forks ==
    {ForkRecord(URL_F, c[1], FORK_BRANCH, c[2]) :
        c \in ForkComponents \X {Commits[i] : i \in 1..Len(Commits)}}

\* the integrations a caller can hold
Integrations == {p \in Constructed : p.package_type = "INTEGRATION" /\ p.version \in {"v1", "v3", "v9"}}

\* Fork(url, fork_component, branch_name, version)
ConstructFork(fork_component, version) ==
    LET made == Fork(URL_F, fork_component, FORK_BRANCH, version, head)
    IN  /\ last' = Last("construct fork", made.pkg, TRUE, "", made.fetched, <<>>, <<>>, fs)
        /\ UNCHANGED <<fs, lock, tmp, head>>

\* fork.install(hass_config_path); step names the file system step that fails
InstallFork(self, step) ==
    \E done \in {Fork_install(self, fs, head, step)} :
        /\ fs' = done.fs
        /\ last' = Last("install", self, done.ok, done.err, FALSE, done.placed, done.requests, fs)
        /\ tmp' = IF ~RaisesForStatus(GetBranchZip(self.url, self.branch_name, head))
                  THEN WithTemporaryDirectory(tmp) ELSE tmp
        /\ UNCHANGED <<lock, head>>

\* package.install(hass_config_path) of an integration, the step named failing
InstallFailing(self, step) ==
    /\ EntersTemp(self)
    /\ \E done \in {install_integration_failing(self, fs, step)} :
           /\ fs' = done.fs
           /\ last' = Last("install", self, done.ok, done.err, FALSE, done.placed, done.requests, fs)
           /\ tmp' = WithTemporaryDirectory(tmp)
           /\ UNCHANGED <<lock, head>>

\* a commit is pushed to the branch of the forked repository
Push ==
    /\ \E i \in 1..(Len(Commits) - 1) : head = Commits[i] /\ head' = Commits[i + 1]
    /\ last' = Last("push", NoPackage, TRUE, "", FALSE, <<>>, <<>>, fs)
    /\ UNCHANGED <<fs, lock, tmp>>

NextFork ==
    \/ \E fork_component \in ForkComponents, version \in {NoVersion, Commits[1]} :
          ConstructFork(fork_component, version)
    \/ \E self \in Forks, step \in FaultSteps \cup {"none"} : InstallFork(self, step)
    \/ \E self \in Integrations : Install(self)
    \/ \E self \in Integrations, step \in FaultSteps : InstallFailing(self, step)
    \/ Push

SpecFork == Init /\ [][NextFork]_vars

\* the plugins a caller can hold
Plugins == {p \in Constructed : p.package_type = "PLUGIN" /\ p.url = URL_P}

\* package.install(hass_config_path) of a plugin, the write named failing
InstallPluginFailing(self, step) ==
    \E done \in {install_plugin_failing(self, fs, step)} :
        /\ fs' = done.fs
        /\ last' = Last("install", self, done.ok, done.err, FALSE, done.placed, done.requests, fs)
        /\ UNCHANGED <<lock, tmp, head>>

\* package.uninstall(hass_config_path) of a discovered package, the removal
\* named failing
UninstallFailing(self, step) ==
    \E done \in {uninstall_path_failing(self.path, fs, step)} :
        /\ fs' = done.fs
        /\ last' = Last("uninstall", self, done.ok, done.err, done.ret, <<>>, <<>>, fs)
        /\ UNCHANGED <<lock, tmp, head>>

\* plugins installed and removed, any write or removal failing
NextFault ==
    \/ \E self \in Plugins : Install(self)
    \/ \E self \in Plugins, step \in PluginSteps : InstallPluginFailing(self, step)
    \/ \E self \in get_installed_packages(fs) : UninstallDiscovered(self)
    \/ \E self \in get_installed_packages(fs), step \in PluginSteps : UninstallFailing(self, step)

SpecFault == Init /\ [][NextFault]_vars

\* the caller's commands: add, and the removal of what the scan finds
NextAdd ==
    \/ \E url \in Urls, version \in AddVersions, package_type \in PackageType, update \in BOOLEAN :
          Add(url, version, package_type, update)
    \/ \E self \in get_installed_packages(fs) : UninstallDiscovered(self)

SpecAdd == Init /\ [][NextAdd]_vars

URL_T == << <<"github.com">>, <<"basnijholt">>, <<"lovelace-", "ios-themes">> >>

\* the packages handed to the lock file: a non-empty version, any type, built
\* from user input (no path) or discovered (with a path)
LockPackages ==
    {[PackageRecord(c[1], c[2], c[3]) EXCEPT !.path = c[4]] :
        c \in (Urls \cup {URL_T}) \X {"v1", "v9"} \X PackageType
                 \X {NoPath, <<CUSTOM_COMPONENTS, <<"ge_home">> >>}}

RECURSIVE SeqsUpTo(_, _)
\* the lists of at most n packages from S, no url listed twice
SeqsUpTo(S, n) ==
    IF n = 0 THEN {<<>>}
    ELSE SeqsUpTo(S, n - 1)
         \cup {Append(c[1], c[2]) : c \in
                  {d \in SeqsUpTo(S, n - 1) \X S :
                      Len(d[1]) = n - 1 /\ \A i \in 1..Len(d[1]) : d[1][i].url # d[2].url}}

\* write_lock_packages(packages)
WriteLock(packages) ==
    /\ lock' = [packages |-> packages, file |-> <<write_lock_packages(packages)>>,
                read |-> <<>>, err |-> ""]
    /\ UNCHANGED <<fs, last, tmp, head>>

\* read_lock_packages()
ReadLock ==
    /\ lock' = [lock EXCEPT !.read = read_lock_packages(lock.file).packages,
                            !.err = read_lock_packages(lock.file).err]
    /\ UNCHANGED <<fs, last, tmp, head>>

NextLock ==
    \/ \E packages \in SeqsUpTo(LockPackages, MaxLock) : WriteLock(packages)
    \/ ReadLock

SpecLock == Init /\ [][NextLock]_vars

\* a == b, for two packages of any origin
Eq(a, b) ==
    /\ last' = Last("eq", <<a, b>>, TRUE, "", PackageEq(a, b), <<>>, <<>>, <<>>)
    /\ UNCHANGED <<fs, lock, tmp, head>>

NextEq == \E a \in LockPackages, b \in LockPackages : Eq(a, b)

SpecEq == Init /\ [][NextEq]_vars

\* the package_type texts a lock file or a manifest can carry: the two this
\* code writes, two it does not know, and none
TypeTexts == {"integration", "plugin", "theme", "appdaemon", ""}

\* the entries of a lock file this code did not write: any package_type text,
\* or no package_type key at all
ForeignEntries ==
    {[url |-> c[1], version |-> "v1", package_type |-> c[2]] : c \in {URL_I, URL_T} \X TypeTexts}
    \cup {[url |-> u, version |-> "v1"] : u \in {URL_I, URL_T}}

\* the lock file as read_lock_packages finds it, written by other hands
ForeignLock(file) ==
    /\ lock' = [packages |-> <<>>, file |-> <<file>>, read |-> <<>>, err |-> ""]
    /\ UNCHANGED <<fs, last, tmp, head>>

NextRead ==
    \/ \E file \in SeqsUpTo(ForeignEntries, MaxLock) : ForeignLock(file)
    \/ ReadLock

SpecRead == Init /\ [][NextRead]_vars

(***************************************************************************)
(* Properties                                                              *)
(***************************************************************************)
InstalledOk == last.op = "install" /\ last.ok

\* the manifest file that accompanies the artifact at path
ManifestPathOf(path) ==
    IF path[1] = CUSTOM_COMPONENTS THEN path \o <<UNHACS_YAML>>
    ELSE SubSeq(path, 1, Len(path) - 1) \o <<path[Len(path)] \o UNHACS_SUFFIX>>

\* C1: after a successful install the scan returns a package with the url and
\* the version installed, whose path is the artifact just placed: a directory
\* custom_components/<name> for an integration, a file www/js/<filename> for
\* a plugin.
C1_DiscoveryCompleteness ==
    InstalledOk =>
        \E q \in get_installed_packages(fs) :
            /\ q.url = last.pkg.url
            /\ q.version = last.pkg.version
            /\ q.path = last.placed
            /\ IF last.pkg.package_type = "INTEGRATION"
               THEN Len(q.path) = 2 /\ q.path[1] = CUSTOM_COMPONENTS /\ is_dir(fs, q.path)
               ELSE Len(q.path) = 3 /\ SubSeq(q.path, 1, 2) = JS_DIR /\ q.path \in DOMAIN fs

\* a plugin installed into a configuration root that held packages already
C1_Witness ==
    /\ InstalledOk
    /\ last.pkg.package_type = "PLUGIN"
    /\ Cardinality(get_installed_packages(last.pre)) >= 2
    /\ Cardinality(get_installed_packages(fs)) > Cardinality(get_installed_packages(last.pre))

\* C2: when a package x is installed, uninstall called on the discovered x, or
\* on a package without path that has x's url and name, returns true, and
\* afterwards x's artifact and manifest are absent and the scan no longer
\* returns x (nothing at all when x was the only package).
C2_Removal ==
    last.op = "uninstall" =>
        \A x \in get_installed_packages(last.pre) :
            (\/ last.pkg.path = x.path
             \/ (last.pkg.path = NoPath /\ x.url = last.pkg.url /\ x.name = last.pkg.name))
            => /\ last.ok
               /\ last.ret
               /\ x.path \notin DOMAIN fs
               /\ ~is_dir(fs, x.path)
               /\ ManifestPathOf(x.path) \notin DOMAIN fs
               /\ x \notin get_installed_packages(fs)
               /\ Cardinality(get_installed_packages(last.pre)) = 1
                    => get_installed_packages(fs) = {}

\* C3: installing the package just installed once more, the remote content
\* being fixed, succeeds and leaves the configuration root exactly as the
\* first install left it.
C3_InstallIdempotent ==
    InstalledOk => /\ install(last.pkg, fs).ok
                   /\ install(last.pkg, fs).fs = fs

\* the second of two installs of one integration in a row: it ran on the
\* configuration root the first one left
C3_Witness ==
    /\ InstalledOk
    /\ last.pkg.package_type = "INTEGRATION"
    /\ last.pre = fs
    /\ ManifestPathOf(last.placed) \in DOMAIN last.pre

\* C4: for a package with a non-empty version, from_yaml(to_yaml(p)) makes no
\* resolution and gives a package equal to p in url, version and
\* package_type; path is no key of the serialized record.  It holds of every
\* package written to the lock file and of the list read back from it.
C4_ManifestRoundTrip ==
    /\ \A i \in 1..Len(lock.packages) :
          LET p == lock.packages[i]
              back == from_yaml(to_yaml(p))
          IN  /\ back.ok
              /\ ~back.fetched
              /\ back.pkg.url = p.url
              /\ back.pkg.version = p.version
              /\ back.pkg.package_type = p.package_type
              /\ DOMAIN to_yaml(p) = {"url", "version", "package_type"}
    /\ lock.read # <<>> =>
          /\ Len(lock.read) = Len(lock.packages)
          /\ \A i \in 1..Len(lock.read) :
                /\ lock.read[i].url = lock.packages[i].url
                /\ lock.read[i].version = lock.packages[i].version
                /\ lock.read[i].package_type = lock.packages[i].package_type
                /\ lock.read[i].path = NoPath

\* a discovered plugin (it carries a path) written to the lock file and read back
C4_Witness ==
    /\ lock.read # <<>>
    /\ \E i \in 1..Len(lock.packages) :
          /\ lock.packages[i].path # NoPath
          /\ lock.packages[i].package_type = "PLUGIN"
          /\ lock.read[i].package_type = "PLUGIN"

\* the order of Python's str comparison on the names of the model
NameRank(name) ==
    CASE name = <<"ha_gehome">> -> 1
      [] name = <<"lovelace-", "card">> -> 2
      [] name = <<"lovelace-", "ios-themes">> -> 3

\* the orders one list of packages can be passed in
Orders(packages) ==
    {q \in SeqsUpTo({packages[i] : i \in 1..Len(packages)}, Len(packages)) : Len(q) = Len(packages)}

\* C5: whatever order the packages are passed in, write_lock_packages writes
\* the same file, and its entries are sorted by package name.
C5_LockDeterministic ==
    lock.file # <<>> =>
        /\ \A q \in Orders(lock.packages) : write_lock_packages(q) = lock.file[1]
        /\ \A i, j \in 1..Len(lock.file[1]) :
              i < j => NameRank(lock.file[1][i].url[Len(lock.file[1][i].url)])
                          <= NameRank(lock.file[1][j].url[Len(lock.file[1][j].url)])

\* the installed packages with the url and the name of p
Counterparts(p, tree) ==
    {q \in get_installed_packages(tree) : q.url = p.url /\ q.name = p.name}

\* C6: is_update returns true exactly when the scan finds no installed package
\* with p's url and name, or the installed counterpart differs in version; it
\* returns false exactly when a counterpart with p's version is installed.
C6_UpdateDetection ==
    last.op = "is_update" =>
        /\ last.ret <=> \/ Counterparts(last.pkg, fs) = {}
                        \/ \A q \in Counterparts(last.pkg, fs) : q.version # last.pkg.version
        /\ ~last.ret <=> \E q \in Counterparts(last.pkg, fs) : q.version = last.pkg.version

\* C7: a Package built with an explicit version that no release of the
\* repository has as its tag is refused; so is one built without a version
\* for a repository without releases.
C7_UnknownVersionRefused ==
    \A url \in Urls, version \in VersionInputs, package_type \in PackageType :
        (/\ last.op = "construct"
         /\ last.pkg.url = url
         /\ ~last.ret
         /\ last.pkg.version = version
         /\ ~RefExists(url, version))
        => ~last.ok

PluginInstall == last.op = "install" /\ last.pkg.package_type = "PLUGIN"

\* the candidate file names of the plugin install that ran last
Candidates ==
    valid_filenames(last.pkg, get_hacs_json(last.pkg.owner, last.pkg.name, last.pkg.version).json)

\* the three URL shapes all answer 404 for filename
NotFoundAnywhere(self, filename) ==
    /\ GetDist(self.owner, self.version, filename).status_code = 404
    /\ GetReleaseAsset(self.owner, self.name, self.version, filename).status_code = 404
    /\ GetRoot(self.owner, self.version, filename).status_code = 404

\* one of the three URL shapes answers 200 for filename
FoundSomewhere(self, filename) ==
    \/ GetDist(self.owner, self.version, filename).status_code = 200
    \/ GetReleaseAsset(self.owner, self.name, self.version, filename).status_code = 200
    \/ GetRoot(self.owner, self.version, filename).status_code = 200

\* the first position of filename among the candidates
FirstPosition(filename) ==
    CHOOSE n \in 1..Len(Candidates) :
        Candidates[n] = filename /\ \A m \in 1..(n - 1) : Candidates[m] # filename

\* C8: the requests of a plugin install go through the candidate file names in
\* order and end with the first request that succeeds, whose file is the one
\* installed; with candidates [A, B, C], A answering 404 on all three URL
\* shapes and B found, B is installed and nothing is requested for C.
C8_FallbackChain ==
    PluginInstall =>
        /\ \A i \in 1..Len(last.requests) :
              \E n \in 1..Len(Candidates) : Candidates[n] = last.requests[i].filename
        /\ \A i, j \in 1..Len(last.requests) :
              i < j => /\ FirstPosition(last.requests[i].filename)
                            <= FirstPosition(last.requests[j].filename)
                       /\ last.requests[i].status_code >= 400
        /\ last.ok =>
              /\ last.requests # <<>>
              /\ last.requests[Len(last.requests)].status_code < 400
              /\ last.placed = JS_DIR \o <<last.requests[Len(last.requests)].filename>>
        /\ (/\ Len(Candidates) >= 3
            /\ NotFoundAnywhere(last.pkg, Candidates[1])
            /\ FoundSomewhere(last.pkg, Candidates[2])
            /\ Candidates[3] \notin {Candidates[1], Candidates[2]})
           => /\ last.ok
              /\ last.placed = JS_DIR \o <<Candidates[2]>>
              /\ \A i \in 1..Len(last.requests) : last.requests[i].filename # Candidates[3]

\* candidates [A, B, C, ..]: A is found nowhere, B is installed, and C, which
\* could have been fetched, was not asked for
C8_Witness ==
    /\ PluginInstall
    /\ last.ok
    /\ Len(Candidates) >= 3
    /\ NotFoundAnywhere(last.pkg, Candidates[1])
    /\ last.placed = JS_DIR \o <<Candidates[2]>>
    /\ FoundSomewhere(last.pkg, Candidates[3])

\* C9: a failure other than 404 on any request of a plugin install ends the
\* install at once with that HTTP error; the next candidate is not tried.
C9_Only404FallsBack ==
    PluginInstall =>
        \A i \in 1..Len(last.requests) :
            (last.requests[i].status_code >= 400 /\ last.requests[i].status_code # 404)
            => /\ ~last.ok
               /\ last.err = "HTTPError"
               /\ i = Len(last.requests)

IntegrationInstalled == InstalledOk /\ last.pkg.package_type = "INTEGRATION"

\* the files of the archive of self that make the artifact placed at dest, by
\* their paths below dest
ArtifactOf(self, dest) ==
    LET tree == RepoTree(self.url, self.version)
        source == IF is_dir(tree, <<CUSTOM_COMPONENTS>>) THEN <<CUSTOM_COMPONENTS, dest[2]>> ELSE <<>>
    IN  [rel \in {SubSeq(f, Len(source) + 1, Len(f)) : f \in {g \in DOMAIN tree : IsUnder(g, source)}}
            |-> tree[source \o rel]]

\* C10: after an integration is installed, its destination holds exactly the
\* files of the new artifact and the new manifest; a file that only the
\* previous install had there is gone.
C10_OverwriteNeverMerge ==
    IntegrationInstalled =>
        LET dest == last.placed
            artifact == ArtifactOf(last.pkg, dest)
        IN  /\ DOMAIN artifact # {}
            /\ {f \in DOMAIN fs : IsUnder(f, dest)}
                 = {dest \o rel : rel \in DOMAIN artifact} \cup {dest \o <<UNHACS_YAML>>}
            /\ \A rel \in DOMAIN artifact \ {<<UNHACS_YAML>>} : fs[dest \o rel] = artifact[rel]
            /\ fs[dest \o <<UNHACS_YAML>>] = Yaml(to_yaml(last.pkg))
            /\ \A f \in DOMAIN last.pre :
                  (IsUnder(f, dest) /\ f \notin {dest \o rel : rel \in DOMAIN artifact})
                  => (f \notin DOMAIN fs \/ f = dest \o <<UNHACS_YAML>>)

\* the destination held another version, with a file the new one has not
C10_Witness ==
    /\ IntegrationInstalled
    /\ (last.placed \o <<UNHACS_YAML>>) \in DOMAIN last.pre
    /\ \E f \in DOMAIN last.pre : IsUnder(f, last.placed) /\ f \notin DOMAIN fs
    /\ \E f \in DOMAIN fs : IsUnder(f, last.placed) /\ f \notin DOMAIN last.pre
\* C11: uninstall of a package that carries no path, when no installed package
\* has its url and name, returns false, raises nothing and leaves the
\* configuration root as it was.
C11_UninstallAbsent ==
    (/\ last.op = "uninstall"
     /\ last.pkg.path = NoPath
     /\ Counterparts(last.pkg, last.pre) = {})
    => /\ ~last.ret
       /\ last.ok
       /\ fs = last.pre

\* the package is absent while packages of another url are installed
C11_Witness ==
    /\ last.op = "uninstall"
    /\ last.pkg.path = NoPath
    /\ Counterparts(last.pkg, last.pre) = {}
    /\ get_installed_packages(last.pre) # {}
    /\ ~last.ret

\* the entries of the lock file whose package_type is a text that is no value
\* of PackageType
UnknownTyped ==
    IF lock.file = <<>> THEN {}
    ELSE {i \in 1..Len(lock.file[1]) :
             /\ "package_type" \in DOMAIN lock.file[1][i]
             /\ lock.file[1][i].package_type # ""
             /\ ~PackageTypeOfValue(lock.file[1][i].package_type).ok}

\* C12: an entry whose package_type is unknown is read without failure, as a
\* package of type integration.
C12_UnknownTypeDegrades ==
    /\ \A i \in UnknownTyped :
          /\ from_yaml(lock.file[1][i]).ok
          /\ from_yaml(lock.file[1][i]).pkg.package_type = "INTEGRATION"
    /\ (UnknownTyped # {} /\ lock.read # <<>>) =>
          \A i \in UnknownTyped : lock.read[i].package_type = "INTEGRATION"
    /\ UnknownTyped # {} => lock.err = ""

\* the installed packages of a url
InstalledOf(url, tree) == {q \in get_installed_packages(tree) : q.url = url}

\* C13: add without --update of a url that is installed already returns a
\* non-zero status and leaves the configuration root, and with it the
\* installed version, as they were.
C13_DoubleAddRejected ==
    (last.op = "add" /\ InstalledOf(last.pkg.url, last.pre) # {})
    => /\ last.ret # 0
       /\ fs = last.pre
       /\ InstalledOf(last.pkg.url, fs) = InstalledOf(last.pkg.url, last.pre)

\* add of an installed url that would have brought another version
C13_Witness ==
    /\ last.op = "add"
    /\ last.ret = 1
    /\ InstalledOf(last.pkg.url, last.pre) # {}
    /\ \A q \in InstalledOf(last.pkg.url, last.pre) : q.version # last.pkg.version

\* the releases of the package built last, as the releases API lists them
Listed == GetReleases(last.pkg.owner, last.pkg.name).body

\* C14: a Package built without a version, the releases list not being empty,
\* gets the tag of the first entry of the list as its version, whatever the
\* other tags are.
C14_FirstListedIsLatest ==
    (last.op = "construct" /\ last.ret /\ last.ok /\ Listed # <<>>)
    => last.pkg.version = Listed[1].tag_name

\* the first entry of the list is v2 while the list has a v3
C14_Witness ==
    /\ last.op = "construct"
    /\ last.ret
    /\ last.ok
    /\ last.pkg.version = "v2"
    /\ \E i \in 2..Len(Listed) : Listed[i].tag_name = "v3"

\* C16: a == b holds exactly when the urls are equal and the versions are
\* equal, whatever the types, the paths and the other fields are.
C16_Equality ==
    last.op = "eq" =>
        (last.ret <=> (last.pkg[1].url = last.pkg[2].url /\ last.pkg[1].version = last.pkg[2].version))

\* two packages of one url and version, equal, that differ in type and path
C16_Witness ==
    /\ last.op = "eq"
    /\ last.ret
    /\ last.pkg[1].package_type # last.pkg[2].package_type
    /\ last.pkg[1].path # last.pkg[2].path

\* an integration install that got its archive
IntegrationExtracted ==
    /\ last.op = "install"
    /\ last.pkg.package_type = "INTEGRATION"
    /\ ~RaisesForStatus(GetZipball(last.pkg.owner, last.pkg.name, last.pkg.version))

\* C17: an integration install takes a directory below custom_components of
\* the archive when there is one, else the archive root (placed at
\* custom_components/<name>) when hacs.json sets content_in_root, and fails
\* with the no-install-target error in every other case, an archive without
\* hacs.json included.
C17_TargetSelection ==
    IntegrationExtracted =>
        IF glob(Extracted(last.pkg), <<CUSTOM_COMPONENTS>>) # {}
        THEN /\ last.ok
             /\ \E c \in glob(Extracted(last.pkg), <<CUSTOM_COMPONENTS>>) :
                   last.placed = <<CUSTOM_COMPONENTS, c>>
        ELSE IF /\ <<HACS_JSON>> \in DOMAIN Extracted(last.pkg)
                /\ Extracted(last.pkg)[<<HACS_JSON>>].json[1].content_in_root
             THEN last.ok /\ last.placed = <<CUSTOM_COMPONENTS, last.pkg.name>>
        ELSE /\ ~last.ok
             /\ last.err = "ValueError: No custom_components directory found"
             /\ fs = last.pre

\* C19: the scan never returns two installed packages of one url; stated for
\* two packages of one type, the case of a url installed under two types left
\* aside.
C19_OnePerUrl ==
    \A a \in get_installed_packages(fs), b \in get_installed_packages(fs) :
        (a.url = b.url /\ a.package_type = b.package_type) => a = b

ForkInstalled == last.op = "install" /\ last.pkg.package_type = "FORK" /\ last.ok

InstallAttempt == last.op = "install" /\ last.pkg.package_type \in {"INTEGRATION", "FORK"}

\* C18: when an install of an integration or of a fork has ended, by success
\* or by a failure at any step, no temporary directory of it exists.
C18_TempCleaned == InstallAttempt => tmp = {}

\* an install that placed its content and failed at the manifest write
C18_Witness ==
    /\ InstallAttempt
    /\ ~last.ok
    /\ last.err = "OSError"
    /\ last.placed # <<>>
    /\ tmp = {}

\* C20: every plugin manifest the scan finds has its artifact file next to it,
\* and uninstall of the package discovered from it removes the manifest.
C20_NoDanglingManifest ==
    \A found \in ManifestsFound(fs) :
        found.plugin =>
            /\ found.path \in DOMAIN fs
            /\ \A done \in uninstall(Discovered(fs, found), fs) :
                  found.unhacs \notin DOMAIN done.fs

\* an install that failed while it downloaded or selected its artifact
InstallRefused ==
    /\ last.op = "install"
    /\ ~last.ok
    /\ last.err \in {"HTTPError", "ValueError: No valid filename found",
                      "ValueError: No custom_components directory found", "FileNotFoundError"}

\* C21: an install that fails on the archive request, for want of a valid
\* plugin file name or for want of an install target leaves the configuration
\* root as it was: a version of the package installed before is still there
\* and the scan still returns it with its version.
C21_FailedInstallPreserves ==
    InstallRefused =>
        /\ fs = last.pre
        /\ \A q \in Counterparts(last.pkg, last.pre) :
              /\ q \in get_installed_packages(fs)
              /\ ManifestPathOf(q.path) \in DOMAIN fs
              /\ fs[ManifestPathOf(q.path)].yaml[1].version = q.version

\* the archive request of an integration failed while another version of it
\* was installed at custom_components/<name>
C21_Witness ==
    /\ InstallRefused
    /\ last.err = "HTTPError"
    /\ last.pkg.package_type = "INTEGRATION"
    /\ \E q \in Counterparts(last.pkg, last.pre) :
          /\ q.path = <<CUSTOM_COMPONENTS, last.pkg.name>>
          /\ q.version # last.pkg.version
          /\ q \in get_installed_packages(fs)

\* the files of fork_component at a commit as an install places them: below
\* custom_components/<fork_component>, manifest.json with the placeholder version
ForkArtifactOf(commit, fork_component) ==
    Moved(WithManifestVersion(CommitTree(commit),
                              COMPONENTS \o <<fork_component, <<"manifest.json">> >>),
          COMPONENTS \o <<fork_component>>, <<CUSTOM_COMPONENTS, fork_component>>)

\* the version of the Fork installed last is a commit the branch has reached
VersionOnBranch ==
    \E i \in 1..Len(Commits), j \in 1..Len(Commits) :
        Commits[i] = last.pkg.version /\ Commits[j] = head /\ i <= j

\* C22: after a Fork with version V is installed, the files below
\* custom_components/<fork_component> are those of commit V, also when the
\* branch has moved on from V by the time of the install.
C22_ForkContentIsVersion ==
    (ForkInstalled /\ VersionOnBranch) =>
        Restrict(fs, {f \in DOMAIN fs : /\ IsUnder(f, last.placed)
                                        /\ f # last.placed \o <<UNHACS_YAML>>})
            = ForkArtifactOf(last.pkg.version, last.pkg.fork_component)
====
